---------------------------- MODULE Spec2Model ----------------------------
(***************************************************************************)
(* BanSync (src/src/index.ts): a Discord bot that replicates bans across   *)
(* a configured list of guilds.                                            *)
(*                                                                         *)
(* The bot is a single Node.js process: every listener runs on one event   *)
(* loop, so the code between two `await`s is atomic and listeners          *)
(* interleave only at their `await`s.  Each action below is one such       *)
(* atomic stretch: it starts where a listener is resumed (an event is      *)
(* dispatched, a REST call resolves or rejects, a timer fires) and runs to *)
(* the next `await` or to the end of the listener.                         *)
(*                                                                         *)
(* The remote side (Discord) is modelled by `bans` (the ban list of each   *)
(* guild), `events` (guildBanAdd gateway events not yet dispatched) and by *)
(* the nondeterministic outcome of every REST call the code handles.       *)
(***************************************************************************)
EXTENDS Integers, Sequences, FiniteSets, TLC

(***************************************************************************)
(* Program constants                                                       *)
(***************************************************************************)
BAN_PROCESSING_TIMEOUT == 30000
BAN_DELAY_MS == 1000

\* serversConfig.servers: the configured guilds, in registry order.
servers == <<"A", "B", "C">>
NodeIds == {servers[i] : i \in 1..Len(servers)}

\* serverMap.has(id)
serverMapHas(id) == id \in NodeIds

\* The tag every reason written by the bot starts with.
SyncTag == "[BanSync]"
NoReasonProvided == <<"No reason provided">>

(***************************************************************************)
(* Bounds of the model                                                     *)
(***************************************************************************)
MaxHandlers == 3      \* guildBanAdd listener invocations kept at a time
MaxOps == 2           \* moderator bans and operator commands per behaviour
MaxTicks == 2         \* clock advances per behaviour, beyond the timers'
StartTime == 1        \* Date.now() when the process starts

\* The user ids of the model, in the order a ban list enumerates them.
SubjectSeq == <<"U1">>
Subjects == {SubjectSeq[i] : i \in 1..Len(SubjectSeq)}
\* An /unban argument that is no user id.
InvalidIds == {"not-an-id"}
Handlers == 1..MaxHandlers

\* A reason is a sequence of words; <<>> is a ban recorded without reason.
NaturalReasons == {<<>>, <<"spam">>}
\* messages of the errors a rejected REST call carries
ThrownMessages == {"Internal Server Error"}
\* Clock advances, beyond those of the timers: the lock's time to live.
TickDeltas == {BAN_PROCESSING_TIMEOUT}

NoBan == [banned |-> FALSE, reason |-> <<>>]
Banned(r) == [banned |-> TRUE, reason |-> r]

VARIABLES
  now,             \* Date.now()
  ticks,           \* number of clock advances so far (bounds the model)
  joined,          \* client.guilds.cache: the configured guilds the bot is in
  hasPerm,         \* guilds where the bot member holds BanMembers
  bans,            \* bans[g][u]: the ban list of guild g (remote state)
  events,          \* guildBanAdd gateway events not yet dispatched
  processingBans,  \* the Map "userId-guildId" -> timestamp (0: no entry)
  hnd,             \* the invocations of the guildBanAdd listener
  sync,            \* the /sync command (handleSyncCommand)
  unban,           \* the /unban command (handleUnbanCommand)
  writes,          \* history: ban writes issued per (user, guild)
  ops,             \* history: moderator bans and commands so far
  lastOp,          \* history: the latest moderator ban or command
  acq              \* history: the last acquisition of a processing entry

vars == <<now, ticks, joined, hasPerm, bans, events, processingBans, hnd,
          sync, unban, writes, ops, lastOp, acq>>

(***************************************************************************)
(* ProcessingLock: src/src/index.ts lines 31-78                            *)
(***************************************************************************)
getBanKey(userId, guildId) == <<userId, guildId>>

Keys == {getBanKey(u, g) : u \in Subjects, g \in NodeIds}

\* Variant: only the periodic cleanup ends an entry.
isBanProcessingNoExpiry(pb, userId, guildId, t) ==
  pb[getBanKey(userId, guildId)] # 0

\* Variant: the entry counts as timed out from the timeout on (`>=`).
isBanProcessingOpenAtTimeout(pb, userId, guildId, t) ==
  LET timestamp == pb[getBanKey(userId, guildId)] IN
  timestamp # 0 /\ ~(t - timestamp >= BAN_PROCESSING_TIMEOUT)

\* The boolean isBanProcessing returns for map pb at time t.
isBanProcessing(pb, userId, guildId, t) ==
  LET timestamp == pb[getBanKey(userId, guildId)] IN
  IF timestamp = 0 THEN FALSE
  ELSE IF t - timestamp > BAN_PROCESSING_TIMEOUT THEN FALSE
  ELSE TRUE

\* The map isBanProcessing leaves behind: a timed-out entry is deleted.
isBanProcessingMap(pb, userId, guildId, t) ==
  LET key == getBanKey(userId, guildId)
      timestamp == pb[key] IN
  IF timestamp # 0 /\ t - timestamp > BAN_PROCESSING_TIMEOUT
  THEN [pb EXCEPT ![key] = 0]
  ELSE pb

markBanProcessing(pb, userId, guildId, t) ==
  [pb EXCEPT ![getBanKey(userId, guildId)] = t]

unmarkBanProcessing(pb, userId, guildId) ==
  [pb EXCEPT ![getBanKey(userId, guildId)] = 0]

\* Variant: the sweep also deletes an entry of exactly the timeout's age.
cleanupAtTimeout(pb, t) ==
  [k \in DOMAIN pb |->
     IF pb[k] # 0 /\ t - pb[k] >= BAN_PROCESSING_TIMEOUT THEN 0 ELSE pb[k]]

\* The setInterval callback: delete every entry older than the timeout.
cleanup(pb, t) ==
  [k \in DOMAIN pb |->
     IF pb[k] # 0 /\ t - pb[k] > BAN_PROCESSING_TIMEOUT THEN 0 ELSE pb[k]]

(***************************************************************************)
(* Reasons and results                                                     *)
(***************************************************************************)
\* What guild.bans.fetch(user).catch(() => null) can settle with: the ban
\* when the user is banned, null when not; with `faulty`, null also when
\* the user is banned and the request is rejected.
fetchAnswers(banned, faulty) ==
  IF faulty THEN {found \in BOOLEAN : found => banned} ELSE {banned}

\* reason.startsWith('[BanSync]')
startsWithSyncTag(r) == Len(r) > 0 /\ r[1] = SyncTag

\* `x.reason || 'No reason provided'`
reasonOrDefault(r) == IF r = <<>> THEN NoReasonProvided ELSE r

\* Variant: the reason written without the tag.
eventSyncReasonBare(src, banReason) == <<"Banned in", src>> \o banReason

\* `[BanSync] Banned in ${sourceServer.name} | Reason: ${banReason}`
eventSyncReason(src, banReason) == <<SyncTag, "Banned in", src>> \o banReason

\* `[BanSync] Originally banned in ${sourceServerName} | Reason: ${reason}`
commandSyncReason(src, reason) == <<SyncTag, "Originally banned in", src>> \o reason

NoError == "undefined"

\* A BanResult.  `outcome` is not a field of the program's record: it names
\* the branch that built the record (the PropagationOutcome of the spec).
BanResult(id, success, alreadyBanned, error, outcome) ==
  [serverId |-> id, success |-> success, alreadyBanned |-> alreadyBanned,
   error |-> error, outcome |-> outcome]

resNotInServer(id)   == BanResult(id, FALSE, FALSE, "Bot not in server", "NodeUnreachable")
resSource(id)        == BanResult(id, TRUE, FALSE, NoError, "SkippedOrigin")
resMissingPerm(id)   == BanResult(id, FALSE, FALSE, "Missing Permissions", "PermissionDenied")
resAlreadyBanned(id) == BanResult(id, TRUE, TRUE, NoError, "AlreadyPresent")
\* Variant: a guild skipped under a live token is reported as a failure.
resProcessingAsError(id) ==
  BanResult(id, FALSE, FALSE, "Ban is currently being processed", "SkippedAsLoop")
resProcessing(id)    == BanResult(id, TRUE, TRUE, NoError, "SkippedAsLoop")
resBanned(id)        == BanResult(id, TRUE, FALSE, NoError, "Applied")
resFailed(id, msg)   == BanResult(id, FALSE, FALSE, msg, "Failed")

\* results.filter(pred).length
CountIf(seq, P(_)) == Cardinality({i \in DOMAIN seq : P(seq[i])})

isSuccessNew(r) == r.success /\ ~r.alreadyBanned
isFailure(r)    == ~r.success
\* Variant: every success counts as already banned.
isAlreadyOrNew(r) == r.success
isAlready(r)    == r.alreadyBanned

successCount(results)       == CountIf(results, isSuccessNew)
failureCount(results)       == CountIf(results, isFailure)
alreadyBannedCount(results) == CountIf(results, isAlready)

(***************************************************************************)
(* The guildBanAdd listener: src/src/index.ts lines 656-822                *)
(***************************************************************************)
IdleHandler ==
  [pc |-> "idle", user |-> "none", src |-> "none", echo |-> FALSE,
   readOk |-> FALSE, banReason |-> <<>>, idx |-> 0, results |-> <<>>,
   applied |-> FALSE, wake |-> 0]

\* From the top of the `for` loop at servers[hr.idx]: the iterations that
\* need no REST call run at once, up to the first `await` or the loop's end.
RECURSIVE banLoop(_)
banLoop(hr) ==
  IF hr.idx > Len(servers) THEN [hr EXCEPT !.pc = "done"]
  ELSE LET id == servers[hr.idx] IN
    IF id \notin joined
    THEN banLoop([hr EXCEPT !.results = Append(@, resNotInServer(id)),
                            !.idx = @ + 1])
    ELSE IF id = hr.src
    THEN banLoop([hr EXCEPT !.results = Append(@, resSource(id)),
                            !.idx = @ + 1])
    ELSE [hr EXCEPT !.pc = "perm"]

\* `continue` with result r
banContinue(hr, r) ==
  banLoop([hr EXCEPT !.results = Append(@, r), !.idx = @ + 1,
                     !.applied = FALSE, !.wake = 0])

\* The lowest idle slot takes the next invocation.
FreeSlot(h) == hnd[h].pc = "idle" /\ \A k \in Handlers : k < h => hnd[k].pc # "idle"

\* The listener without the registry check of lines 661-664: an event of any
\* guild goes on to the reason fetch (a Map has no token for an unknown key).
GuildBanAddUnchecked(h, e) ==
  /\ FreeSlot(h)
  /\ e \in events
  /\ events' = events \ {e}
  /\ LET start == [IdleHandler EXCEPT !.user = e.user, !.src = e.guild,
                                      !.echo = e.echo] IN
     IF e.guild \in NodeIds /\ isBanProcessing(processingBans, e.user, e.guild, now)
     THEN /\ hnd' = [hnd EXCEPT ![h] = [start EXCEPT !.pc = "rejected"]]
          /\ processingBans' = isBanProcessingMap(processingBans, e.user, e.guild, now)
     ELSE /\ hnd' = [hnd EXCEPT ![h] = [start EXCEPT !.pc = "fetchReason"]]
          /\ processingBans' = IF e.guild \in NodeIds
                               THEN isBanProcessingMap(processingBans, e.user, e.guild, now)
                               ELSE processingBans
  /\ UNCHANGED <<now, ticks, joined, hasPerm, bans, sync, unban, writes,
                 ops, lastOp, acq>>

\* The listener starts on event e: lines 656-677.
GuildBanAdd(h, e) ==
  /\ FreeSlot(h)
  /\ e \in events
  /\ events' = events \ {e}
  /\ LET start == [IdleHandler EXCEPT !.user = e.user, !.src = e.guild,
                                      !.echo = e.echo] IN
     IF ~serverMapHas(e.guild)
     THEN /\ hnd' = [hnd EXCEPT ![h] = [start EXCEPT !.pc = "ignored"]]
          /\ UNCHANGED processingBans
     ELSE IF isBanProcessing(processingBans, e.user, e.guild, now)
     THEN /\ hnd' = [hnd EXCEPT ![h] = [start EXCEPT !.pc = "rejected"]]
          /\ processingBans' = isBanProcessingMap(processingBans, e.user, e.guild, now)
     ELSE /\ hnd' = [hnd EXCEPT ![h] = [start EXCEPT !.pc = "fetchReason"]]
          /\ processingBans' = isBanProcessingMap(processingBans, e.user, e.guild, now)
  /\ UNCHANGED <<now, ticks, joined, hasPerm, bans, sync, unban, writes,
                 ops, lastOp, acq>>

\* Lines 683-695 with the reason the fetch produced.
banAfterReason(hr, reason) ==
  IF startsWithSyncTag(reason)
  THEN [hr EXCEPT !.pc = "rejected", !.banReason = reason]
  ELSE banLoop([hr EXCEPT !.banReason = reason, !.idx = 1])

\* sourceGuild.bans.fetch(user) resolves: lines 677-678.
FetchBanReason(h) ==
  /\ hnd[h].pc = "fetchReason"
  /\ bans[hnd[h].src][hnd[h].user].banned
  /\ hnd' = [hnd EXCEPT ![h] =
       banAfterReason([@ EXCEPT !.readOk = TRUE],
                      reasonOrDefault(bans[@.src][@.user].reason))]
  /\ UNCHANGED <<now, ticks, joined, hasPerm, bans, events, processingBans,
                 sync, unban, writes, ops, lastOp, acq>>

\* sourceGuild.bans.fetch(user) rejects: lines 679-681.
FetchBanReasonFail(h) ==
  /\ hnd[h].pc = "fetchReason"
  /\ hnd' = [hnd EXCEPT ![h] = banAfterReason(@, NoReasonProvided)]
  /\ UNCHANGED <<now, ticks, joined, hasPerm, bans, events, processingBans,
                 sync, unban, writes, ops, lastOp, acq>>

\* guild.members.fetch(bot) resolves: lines 723-737.
BanFetchBotMember(h) ==
  /\ hnd[h].pc = "perm"
  /\ LET id == servers[hnd[h].idx] IN
     hnd' = [hnd EXCEPT ![h] =
       IF id \in hasPerm THEN [@ EXCEPT !.pc = "banq"]
       ELSE banContinue(@, resMissingPerm(id))]
  /\ UNCHANGED <<now, ticks, joined, hasPerm, bans, events, processingBans,
                 sync, unban, writes, ops, lastOp, acq>>

\* Variant: the error leaves the loop.
banCatchAbort(hr, msg) ==
  [hr EXCEPT !.pc = "done",
             !.results = Append(@, resFailed(servers[hr.idx], msg))]

\* The catch block: lines 782-795.
banCatch(hr, msg) == banContinue(hr, resFailed(servers[hr.idx], msg))

\* guild.members.fetch(bot) rejects: the catch block runs.
BanFetchBotMemberFail(h) ==
  /\ hnd[h].pc = "perm"
  /\ \E msg \in ThrownMessages :
       hnd' = [hnd EXCEPT ![h] = banCatch(@, msg)]
  /\ processingBans' =
       unmarkBanProcessing(processingBans, hnd[h].user, servers[hnd[h].idx])
  /\ UNCHANGED <<now, ticks, joined, hasPerm, bans, events, sync, unban,
                 writes, ops, lastOp, acq>>

\* guild.bans.fetch(user).catch(() => null) settles with `found`: lines
\* 737-768.  A rejected fetch gives null: the user is not banned there, or
\* (with `faulty`) the request failed for any other reason.
BanFetchExisting(h, found, faulty) ==
  /\ hnd[h].pc = "banq"
  /\ LET id == servers[hnd[h].idx]
         u  == hnd[h].user IN
     /\ found \in fetchAnswers(bans[id][u].banned, faulty)
     /\ IF found
        THEN /\ hnd' = [hnd EXCEPT ![h] = banContinue(@, resAlreadyBanned(id))]
             /\ UNCHANGED <<processingBans, writes, acq>>
        ELSE IF isBanProcessing(processingBans, u, id, now)
        THEN /\ hnd' = [hnd EXCEPT ![h] = banContinue(@, resProcessing(id))]
             /\ processingBans' = isBanProcessingMap(processingBans, u, id, now)
             /\ UNCHANGED <<writes, acq>>
        ELSE /\ hnd' = [hnd EXCEPT ![h] = [@ EXCEPT !.pc = "write"]]
             /\ processingBans' =
                  markBanProcessing(isBanProcessingMap(processingBans, u, id, now),
                                    u, id, now)
             /\ writes' = [writes EXCEPT ![getBanKey(u, id)] = @ + 1]
             /\ acq' = [key |-> getBanKey(u, id),
                        prev |-> processingBans[getBanKey(u, id)], at |-> now]
  /\ UNCHANGED <<now, ticks, joined, hasPerm, bans, events, sync, unban,
                 ops, lastOp>>

\* Discord applies a ban write that is in flight: the ban is recorded with
\* the written reason and surfaces as a guildBanAdd event of that guild.
remoteBan(b, ev, u, id, reason) ==
  IF b[id][u].banned THEN <<b, ev>>
  ELSE << [b EXCEPT ![id][u] = Banned(reason)],
          ev \cup {[user |-> u, guild |-> id, echo |-> TRUE]} >>

BanApplied(h) ==
  /\ hnd[h].pc = "write"
  /\ ~hnd[h].applied
  /\ LET r == remoteBan(bans, events, hnd[h].user, servers[hnd[h].idx],
                        eventSyncReason(hnd[h].src, hnd[h].banReason)) IN
       /\ bans' = r[1]
       /\ events' = r[2]
  /\ hnd' = [hnd EXCEPT ![h].applied = TRUE]
  /\ UNCHANGED <<now, ticks, joined, hasPerm, processingBans, sync, unban,
                 writes, ops, lastOp, acq>>

\* guild.members.ban resolves: lines 770-780, up to the delay.
BanResolved(h) ==
  /\ hnd[h].pc = "write"
  /\ hnd[h].applied
  /\ hnd' = [hnd EXCEPT ![h] =
       [@ EXCEPT !.pc = "delay", !.applied = FALSE,
                 !.results = Append(@, resBanned(servers[hnd[h].idx])),
                 !.wake = now + BAN_DELAY_MS]]
  /\ UNCHANGED <<now, ticks, joined, hasPerm, bans, events, processingBans,
                 sync, unban, writes, ops, lastOp, acq>>

\* guild.members.ban rejects: the catch block runs.  The request may have
\* been applied all the same (the response is lost or times out).
BanRejected(h) ==
  /\ hnd[h].pc = "write"
  /\ \E msg \in ThrownMessages :
       hnd' = [hnd EXCEPT ![h] = banCatch(@, msg)]
  /\ processingBans' =
       unmarkBanProcessing(processingBans, hnd[h].user, servers[hnd[h].idx])
  /\ UNCHANGED <<now, ticks, joined, hasPerm, bans, events, sync, unban,
                 writes, ops, lastOp, acq>>

\* The time at which a timer due at `wake` fires: not before it is due.
timerFires(t, wake) == IF t < wake THEN wake ELSE t

\* The setTimeout(BAN_DELAY_MS) promise resolves: the next iteration starts.
BanDelayDone(h) ==
  /\ hnd[h].pc = "delay"
  /\ now' = timerFires(now, hnd[h].wake)
  /\ hnd' = [hnd EXCEPT ![h] =
       banLoop([@ EXCEPT !.idx = @ + 1, !.wake = 0])]
  /\ UNCHANGED <<ticks, joined, hasPerm, bans, events, processingBans,
                 sync, unban, writes, ops, lastOp, acq>>

(***************************************************************************)
(* Operations.  A moderator's ban and an operator's command each begin an  *)
(* operation.  With `fresh` the operation begins when the bot is at rest   *)
(* and the records of the invocations that have returned are dropped, so   *)
(* the histories (writes, acq) are those of the operation under way;       *)
(* without it the operation begins at any time and nothing is dropped.     *)
(***************************************************************************)
HandlerActive(h) == hnd[h].pc \notin {"idle", "done", "rejected", "ignored"}
SyncIdle == sync.pc \in {"idle", "done", "denied"}
UnbanIdle == unban.pc \in {"idle", "done", "denied", "invalid"}

\* No listener is running and no event is waiting.
Quiet ==
  /\ \A h \in Handlers : ~HandlerActive(h)
  /\ events = {}
  /\ SyncIdle
  /\ UnbanIdle

NoAcq == [key |-> <<"none", "none">>, prev |-> 0, at |-> 0]

Forget(fresh, cur, idle) == IF fresh THEN idle ELSE cur

Begin(fresh, op) ==
  /\ ops < MaxOps
  /\ fresh => Quiet
  /\ ops' = ops + 1
  /\ lastOp' = op
  /\ writes' = Forget(fresh, writes, [k \in Keys |-> 0])
  /\ acq' = Forget(fresh, acq, NoAcq)

(***************************************************************************)
(* The /sync command: handleSyncCommand and syncBanToAllServers,           *)
(* src/src/index.ts lines 419-654.  The awaits on the interaction          *)
(* (deferReply, editReply) touch nothing the other listeners read and are  *)
(* folded into the stretch that follows them.                              *)
(***************************************************************************)
ZeroStats == [totalBans |-> 0, newBans |-> 0, alreadyBanned |-> 0, errors |-> 0]

\* `listed` is not a local of the program: it keeps the guilds whose ban
\* list this run has fetched, until the propagation takes its first step.
Forgotten == {"-"}

IdleSync ==
  [pc |-> "idle", idx |-> 0, allBans |-> <<>>, cur |-> 0, results |-> <<>>,
   applied |-> FALSE, wake |-> 0, stats |-> ZeroStats, details |-> <<>>,
   prev |-> <<>>, listed |-> {}]

IdleUnban ==
  [pc |-> "idle", user |-> "none", idx |-> 0, results |-> <<>>,
   applied |-> FALSE]

\* allBans.has(userId)
mapHas(all, userId) == \E i \in DOMAIN all : all[i].userId = userId

\* allBans.get(userId)
mapGet(all, userId) == all[CHOOSE i \in DOMAIN all : all[i].userId = userId]

\* allBans.set(userId, rec): a Map keeps the position of a key it holds.
mapSet(all, rec) ==
  IF mapHas(all, rec.userId)
  THEN [i \in DOMAIN all |-> IF all[i].userId = rec.userId THEN rec ELSE all[i]]
  ELSE Append(all, rec)

\* Variant: the records the bot wrote are collected like any other.
RECURSIVE collectBansTagged(_, _, _, _)
collectBansTagged(all, g, list, i) ==
  IF i > Len(SubjectSeq) THEN all
  ELSE LET u == SubjectSeq[i]
           ban == list[u] IN
    IF ~ban.banned THEN collectBansTagged(all, g, list, i + 1)
    ELSE IF ~mapHas(all, u) \/ mapGet(all, u).reason = <<>>
    THEN collectBansTagged(mapSet(all, [userId |-> u, sourceServerId |-> g,
                                        reason |-> reasonOrDefault(ban.reason)]),
                           g, list, i + 1)
    ELSE collectBansTagged(all, g, list, i + 1)

\* The inner loop of lines 453-467 over the ban list `list` of guild g.
RECURSIVE collectBans(_, _, _, _)
collectBans(all, g, list, i) ==
  IF i > Len(SubjectSeq) THEN all
  ELSE LET u == SubjectSeq[i]
           ban == list[u] IN
    IF ~ban.banned THEN collectBans(all, g, list, i + 1)
    ELSE IF startsWithSyncTag(ban.reason) THEN collectBans(all, g, list, i + 1)
    ELSE IF ~mapHas(all, u) \/ mapGet(all, u).reason = <<>>
    THEN collectBans(mapSet(all, [userId |-> u, sourceServerId |-> g,
                                  reason |-> reasonOrDefault(ban.reason)]),
                     g, list, i + 1)
    ELSE collectBans(all, g, list, i + 1)

truthy(error) == error # NoError /\ error # ""

isNewBan(r)      == r.success /\ ~r.alreadyBanned
isAlreadyStat(r) == ~isNewBan(r) /\ r.alreadyBanned
isErrorStat(r)   == ~isNewBan(r) /\ ~r.alreadyBanned /\ ~r.success /\ truthy(r.error)

\* Lines 493-504: the counters after one ban's results.
addStats(stats, results) ==
  [totalBans     |-> stats.totalBans + 1,
   newBans       |-> stats.newBans + CountIf(results, isNewBan),
   alreadyBanned |-> stats.alreadyBanned + CountIf(results, isAlreadyStat),
   errors        |-> stats.errors + CountIf(results, isErrorStat)]

\* syncBanToAllServers returned: lines 491-514, up to the delay.
syncReturned(sr) ==
  [sr EXCEPT !.pc = "userDelay",
             !.stats = addStats(@, sr.results),
             !.details = Append(@, sr.results),
             !.wake = now + BAN_DELAY_MS]

\* The `for` loop of syncBanToAllServers from servers[sr.idx]: lines 562-576.
RECURSIVE syncLoop(_)
syncLoop(sr) ==
  IF sr.idx > Len(servers) THEN syncReturned(sr)
  ELSE LET id == servers[sr.idx] IN
    IF id \notin joined
    THEN syncLoop([sr EXCEPT !.results = Append(@, resNotInServer(id)),
                             !.idx = @ + 1])
    ELSE [sr EXCEPT !.pc = "perm"]

syncContinue(sr, r) ==
  syncLoop([sr EXCEPT !.results = Append(@, r), !.idx = @ + 1,
                      !.applied = FALSE, !.wake = 0, !.listed = Forgotten])

\* Lines 473-491: the collection is over.
syncCollected(sr) ==
  IF sr.allBans = <<>> THEN [sr EXCEPT !.pc = "done", !.idx = 0]
  ELSE syncLoop([sr EXCEPT !.cur = 1, !.idx = 1, !.results = <<>>])

\* The collection loop from servers[sr.idx]: lines 445-450.
RECURSIVE listLoop(_)
listLoop(sr) ==
  IF sr.idx > Len(servers) THEN syncCollected(sr)
  ELSE IF servers[sr.idx] \notin joined
  THEN listLoop([sr EXCEPT !.idx = @ + 1])
  ELSE [sr EXCEPT !.pc = "list"]

\* handleSyncCommand starts: lines 419-450.  `prev` keeps the details of
\* the run before this one when the two runs follow each other directly.
SyncCommand(auth, fresh) ==
  /\ SyncIdle
  /\ Begin(fresh, [kind |-> "sync", origin |-> "none", auth |-> auth])
  /\ sync' = LET start == [IdleSync EXCEPT !.prev = sync.details] IN
             IF auth THEN listLoop([start EXCEPT !.idx = 1])
             ELSE [start EXCEPT !.pc = "denied"]
  /\ hnd' = Forget(fresh, hnd, [h \in Handlers |-> IdleHandler])
  /\ unban' = Forget(fresh, unban, IdleUnban)
  /\ UNCHANGED <<now, ticks, joined, hasPerm, bans, events, processingBans>>

\* guild.bans.fetch() resolves: lines 450-467.
SyncListed ==
  /\ sync.pc = "list"
  /\ sync' = listLoop([sync EXCEPT
       !.allBans = collectBans(@, servers[sync.idx], bans[servers[sync.idx]], 1),
       !.listed = @ \cup {servers[sync.idx]},
       !.idx = @ + 1])
  /\ UNCHANGED <<now, ticks, joined, hasPerm, bans, events, processingBans,
                 hnd, unban, writes, ops, lastOp, acq>>

\* As SyncListFail, but the failure ends the run.
SyncListFailAbort ==
  /\ sync.pc = "list"
  /\ sync' = [sync EXCEPT !.pc = "done", !.idx = 0]
  /\ UNCHANGED <<now, ticks, joined, hasPerm, bans, events, processingBans,
                 hnd, unban, writes, ops, lastOp, acq>>

\* guild.bans.fetch() rejects: lines 468-470.
SyncListFail ==
  /\ sync.pc = "list"
  /\ sync' = listLoop([sync EXCEPT !.idx = @ + 1])
  /\ UNCHANGED <<now, ticks, joined, hasPerm, bans, events, processingBans,
                 hnd, unban, writes, ops, lastOp, acq>>

\* guild.members.fetch(bot) resolves: lines 578-592.
SyncFetchBotMember ==
  /\ sync.pc = "perm"
  /\ LET id == servers[sync.idx] IN
     sync' = IF id \in hasPerm
             THEN [sync EXCEPT !.pc = "banq", !.listed = Forgotten]
             ELSE syncContinue(sync, resMissingPerm(id))
  /\ UNCHANGED <<now, ticks, joined, hasPerm, bans, events, processingBans,
                 hnd, unban, writes, ops, lastOp, acq>>

\* The catch block of syncBanToAllServers: lines 638-650.
syncCatch(sr, msg) == syncContinue(sr, resFailed(servers[sr.idx], msg))

\* guild.members.fetch(bot) rejects.
SyncFetchBotMemberFail ==
  /\ sync.pc = "perm"
  /\ \E msg \in ThrownMessages : sync' = syncCatch(sync, msg)
  /\ processingBans' =
       unmarkBanProcessing(processingBans, sync.allBans[sync.cur].userId,
                           servers[sync.idx])
  /\ UNCHANGED <<now, ticks, joined, hasPerm, bans, events, hnd, unban,
                 writes, ops, lastOp, acq>>

\* guild.bans.fetch(userId).catch(() => null) settles: lines 592-624.
SyncFetchExisting(found, faulty) ==
  /\ sync.pc = "banq"
  /\ LET id == servers[sync.idx]
         u  == sync.allBans[sync.cur].userId IN
     /\ found \in fetchAnswers(bans[id][u].banned, faulty)
     /\ IF found
        THEN /\ sync' = syncContinue(sync, resAlreadyBanned(id))
             /\ UNCHANGED <<processingBans, writes, acq>>
        ELSE IF isBanProcessing(processingBans, u, id, now)
        THEN /\ sync' = syncContinue(sync, resProcessing(id))
             /\ processingBans' = isBanProcessingMap(processingBans, u, id, now)
             /\ UNCHANGED <<writes, acq>>
        ELSE /\ sync' = [sync EXCEPT !.pc = "write"]
             /\ processingBans' =
                  markBanProcessing(isBanProcessingMap(processingBans, u, id, now),
                                    u, id, now)
             /\ writes' = [writes EXCEPT ![getBanKey(u, id)] = @ + 1]
             /\ acq' = [key |-> getBanKey(u, id),
                        prev |-> processingBans[getBanKey(u, id)], at |-> now]
  /\ UNCHANGED <<now, ticks, joined, hasPerm, bans, events, hnd, unban,
                 ops, lastOp>>

\* Discord applies the ban write of syncBanToAllServers.
SyncApplied ==
  /\ sync.pc = "write"
  /\ ~sync.applied
  /\ LET info == sync.allBans[sync.cur]
         r == remoteBan(bans, events, info.userId, servers[sync.idx],
                        commandSyncReason(info.sourceServerId, info.reason)) IN
       /\ bans' = r[1]
       /\ events' = r[2]
  /\ sync' = [sync EXCEPT !.applied = TRUE]
  /\ UNCHANGED <<now, ticks, joined, hasPerm, processingBans, hnd, unban,
                 writes, ops, lastOp, acq>>

\* guild.members.ban resolves: lines 626-636.
SyncResolved ==
  /\ sync.pc = "write"
  /\ sync.applied
  /\ sync' = [sync EXCEPT !.pc = "delay", !.applied = FALSE,
                          !.results = Append(@, resBanned(servers[sync.idx])),
                          !.wake = now + BAN_DELAY_MS]
  /\ UNCHANGED <<now, ticks, joined, hasPerm, bans, events, processingBans,
                 hnd, unban, writes, ops, lastOp, acq>>

\* guild.members.ban rejects: the catch block runs.
SyncRejected ==
  /\ sync.pc = "write"
  /\ \E msg \in ThrownMessages : sync' = syncCatch(sync, msg)
  /\ processingBans' =
       unmarkBanProcessing(processingBans, sync.allBans[sync.cur].userId,
                           servers[sync.idx])
  /\ UNCHANGED <<now, ticks, joined, hasPerm, bans, events, hnd, unban,
                 writes, ops, lastOp, acq>>

\* The delay of line 636 is over: the next guild.
SyncDelayDone ==
  /\ sync.pc = "delay"
  /\ now' = timerFires(now, sync.wake)
  /\ sync' = syncLoop([sync EXCEPT !.idx = @ + 1, !.wake = 0])
  /\ UNCHANGED <<ticks, joined, hasPerm, bans, events, processingBans, hnd,
                 unban, writes, ops, lastOp, acq>>

\* The delay of line 514 is over: the next ban, or the report (517-543).
SyncUserDelayDone ==
  /\ sync.pc = "userDelay"
  /\ now' = timerFires(now, sync.wake)
  /\ sync' = IF sync.cur < Len(sync.allBans)
             THEN syncLoop([sync EXCEPT !.cur = @ + 1, !.idx = 1,
                                        !.results = <<>>, !.wake = 0])
             ELSE [sync EXCEPT !.pc = "done", !.idx = 0, !.wake = 0]
  /\ UNCHANGED <<ticks, joined, hasPerm, bans, events, processingBans, hnd,
                 unban, writes, ops, lastOp, acq>>

(***************************************************************************)
(* The /unban command: handleUnbanCommand, src/src/index.ts lines 267-417  *)
(***************************************************************************)
UnbanResult(id, success, wasNotBanned, error, outcome) ==
  [serverId |-> id, success |-> success, wasNotBanned |-> wasNotBanned,
   error |-> error, outcome |-> outcome]

unbNotInServer(id)  == UnbanResult(id, FALSE, FALSE, "Bot not in server", "NodeUnreachable")
unbMissingPerm(id)  == UnbanResult(id, FALSE, FALSE, "Missing Permissions", "PermissionDenied")
unbNotBanned(id)    == UnbanResult(id, TRUE, TRUE, NoError, "wasNotBanned")
unbUnbanned(id)     == UnbanResult(id, TRUE, FALSE, NoError, "Applied")
unbFailed(id, msg)  == UnbanResult(id, FALSE, FALSE, msg, "Failed")

isUnbanned(r)     == r.success /\ ~r.wasNotBanned
isNotBanned(r)    == r.wasNotBanned
isUnbanError(r)   == ~r.success

unbannedCount(results)   == CountIf(results, isUnbanned)
notBannedCount(results)  == CountIf(results, isNotBanned)
unbanErrorCount(results) == CountIf(results, isUnbanError)

\* Variant: every id passes the format test.
validUserIdAny(userId) == TRUE

\* /^\d{17,19}$/.test(userId): the subjects are well-formed ids.
validUserId(userId) == userId \in Subjects

\* The `for` loop from servers[ur.idx]: lines 299-315.
RECURSIVE unbanLoop(_)
unbanLoop(ur) ==
  IF ur.idx > Len(servers) THEN [ur EXCEPT !.pc = "done"]
  ELSE LET id == servers[ur.idx] IN
    IF id \notin joined
    THEN unbanLoop([ur EXCEPT !.results = Append(@, unbNotInServer(id)),
                              !.idx = @ + 1])
    ELSE [ur EXCEPT !.pc = "perm"]

unbanContinue(ur, r) ==
  unbanLoop([ur EXCEPT !.results = Append(@, r), !.idx = @ + 1,
                       !.applied = FALSE])

\* handleUnbanCommand starts: lines 267-315.
UnbanCommand(auth, userId, fresh) ==
  /\ UnbanIdle
  /\ Begin(fresh, [kind |-> "unban", origin |-> "none", auth |-> auth])
  /\ unban' = LET start == [IdleUnban EXCEPT !.user = userId] IN
              IF ~auth THEN [start EXCEPT !.pc = "denied"]
              ELSE IF ~validUserId(userId) THEN [start EXCEPT !.pc = "invalid"]
              ELSE unbanLoop([start EXCEPT !.idx = 1])
  /\ hnd' = Forget(fresh, hnd, [h \in Handlers |-> IdleHandler])
  /\ sync' = Forget(fresh, sync, IdleSync)
  /\ UNCHANGED <<now, ticks, joined, hasPerm, bans, events, processingBans>>

\* guild.members.fetch(bot) resolves: lines 315-329.
UnbanFetchBotMember ==
  /\ unban.pc = "perm"
  /\ LET id == servers[unban.idx] IN
     unban' = IF id \in hasPerm THEN [unban EXCEPT !.pc = "banq"]
              ELSE unbanContinue(unban, unbMissingPerm(id))
  /\ UNCHANGED <<now, ticks, joined, hasPerm, bans, events, processingBans,
                 hnd, sync, writes, ops, lastOp, acq>>

\* The catch block: lines 353-363.
unbanCatch(ur, msg) == unbanContinue(ur, unbFailed(servers[ur.idx], msg))

\* guild.members.fetch(bot) rejects.
UnbanFetchBotMemberFail ==
  /\ unban.pc = "perm"
  /\ \E msg \in ThrownMessages : unban' = unbanCatch(unban, msg)
  /\ UNCHANGED <<now, ticks, joined, hasPerm, bans, events, processingBans,
                 hnd, sync, writes, ops, lastOp, acq>>

\* guild.bans.fetch(userId).catch(() => null) settles: lines 329-342.
UnbanFetchExisting(found, faulty) ==
  /\ unban.pc = "banq"
  /\ found \in fetchAnswers(bans[servers[unban.idx]][unban.user].banned, faulty)
  /\ unban' = IF found THEN [unban EXCEPT !.pc = "write"]
              ELSE unbanContinue(unban, unbNotBanned(servers[unban.idx]))
  /\ UNCHANGED <<now, ticks, joined, hasPerm, bans, events, processingBans,
                 hnd, sync, writes, ops, lastOp, acq>>

\* Discord applies the removal.
UnbanApplied ==
  /\ unban.pc = "write"
  /\ ~unban.applied
  /\ bans[servers[unban.idx]][unban.user].banned
  /\ bans' = [bans EXCEPT ![servers[unban.idx]][unban.user] = NoBan]
  /\ unban' = [unban EXCEPT !.applied = TRUE]
  /\ UNCHANGED <<now, ticks, joined, hasPerm, events, processingBans, hnd,
                 sync, writes, ops, lastOp, acq>>

\* guild.members.unban resolves: lines 344-351.
UnbanResolved ==
  /\ unban.pc = "write"
  /\ unban.applied
  /\ unban' = unbanContinue(unban, unbUnbanned(servers[unban.idx]))
  /\ UNCHANGED <<now, ticks, joined, hasPerm, bans, events, processingBans,
                 hnd, sync, writes, ops, lastOp, acq>>

\* guild.members.unban rejects: the catch block runs.
UnbanRejected ==
  /\ unban.pc = "write"
  /\ \E msg \in ThrownMessages : unban' = unbanCatch(unban, msg)
  /\ UNCHANGED <<now, ticks, joined, hasPerm, bans, events, processingBans,
                 hnd, sync, writes, ops, lastOp, acq>>

(***************************************************************************)
(* Environment                                                             *)
(***************************************************************************)
\* A moderator bans u in guild g with reason r (not through the bot).
NaturalBan(g, u, r, fresh) ==
  /\ Begin(fresh, [kind |-> "ban", origin |-> g])
  /\ ~bans[g][u].banned
  /\ bans' = [bans EXCEPT ![g][u] = Banned(r)]
  /\ events' = IF g \in joined
               THEN events \cup {[user |-> u, guild |-> g, echo |-> FALSE]}
               ELSE events
  /\ hnd' = Forget(fresh, hnd, [h \in Handlers |-> IdleHandler])
  /\ sync' = Forget(fresh, sync, IdleSync)
  /\ unban' = Forget(fresh, unban, IdleUnban)
  /\ UNCHANGED <<now, ticks, joined, hasPerm, processingBans>>

\* Time passes.  A pending timer moves the clock itself when it fires
\* (timerFires); beyond that the clock is read only against the entries of
\* processingBans, so an advance while the map is empty changes nothing the
\* program can observe and is left out.
TimeObserved == \E k \in Keys : processingBans[k] # 0

Tick(d) ==
  /\ ticks < MaxTicks
  /\ TimeObserved
  /\ now' = now + d
  /\ ticks' = ticks + 1
  /\ UNCHANGED <<joined, hasPerm, bans, events, processingBans, hnd, sync,
                 unban, writes, ops, lastOp, acq>>

\* The setInterval(..., 60000) callback: lines 70-78.
Cleanup ==
  /\ processingBans' = cleanup(processingBans, now)
  /\ processingBans' # processingBans
  /\ UNCHANGED <<now, ticks, joined, hasPerm, bans, events, hnd, sync, unban,
                 writes, ops, lastOp, acq>>

\* The ban lists when the bot starts: empty, or holding a ban a moderator
\* issued in guild A before.
InitialBans ==
  { [g \in NodeIds |-> [u \in Subjects |-> NoBan]],
    [g \in NodeIds |-> [u \in Subjects |->
       IF g = "A" THEN Banned(<<"spam">>) ELSE NoBan]] }

Init ==
  /\ now = StartTime
  /\ ticks = 0
  /\ joined \in {NodeIds, NodeIds \ {"B"}}
  /\ hasPerm \in {NodeIds, NodeIds \ {"C"}}
  /\ bans \in InitialBans
  /\ events = {}
  /\ processingBans = [k \in Keys |-> 0]
  /\ hnd = [h \in Handlers |-> IdleHandler]
  /\ sync = IdleSync
  /\ unban = IdleUnban
  /\ writes = [k \in Keys |-> 0]
  /\ ops = 0
  /\ lastOp = [kind |-> "none", origin |-> "none"]
  /\ acq = NoAcq

HandlerStep(h, faulty) ==
  \/ \E e \in events : GuildBanAdd(h, e)
  \/ FetchBanReason(h)
  \/ BanFetchBotMember(h)
  \/ BanFetchBotMemberFail(h)
  \/ \E found \in BOOLEAN : BanFetchExisting(h, found, faulty)
  \/ BanApplied(h)
  \/ BanResolved(h)
  \/ BanRejected(h)
  \/ BanDelayDone(h)

SyncStep(faulty) ==
  \/ SyncListed
  \/ SyncListFail
  \/ SyncFetchBotMember
  \/ SyncFetchBotMemberFail
  \/ \E found \in BOOLEAN : SyncFetchExisting(found, faulty)
  \/ SyncApplied
  \/ SyncResolved
  \/ SyncRejected
  \/ SyncDelayDone
  \/ SyncUserDelayDone

UnbanStep(faulty) ==
  \/ UnbanFetchBotMember
  \/ UnbanFetchBotMemberFail
  \/ \E found \in BOOLEAN : UnbanFetchExisting(found, faulty)
  \/ UnbanApplied
  \/ UnbanResolved
  \/ UnbanRejected

\* Moderators and operators act one at a time: a ban or a command arrives
\* when the bot has finished with the previous one.  The echoes of the
\* bot's own writes arrive at any time.  The reason fetch of the listener's
\* guard is answered (FetchBanReasonFail is part of no specification here).
NextOps(faulty) ==
  \/ \E h \in Handlers : HandlerStep(h, faulty)
  \/ SyncStep(faulty)
  \/ UnbanStep(faulty)
  \/ \E g \in NodeIds, u \in Subjects, r \in NaturalReasons :
       NaturalBan(g, u, r, TRUE)
  \/ \E auth \in BOOLEAN : SyncCommand(auth, TRUE)
  \/ \E auth \in BOOLEAN, id \in Subjects \cup InvalidIds :
       UnbanCommand(auth, id, TRUE)
  \/ \E d \in TickDeltas : Tick(d)
  \/ Cleanup

\* Every REST call may be rejected.
Next == NextOps(TRUE)

Spec == Init /\ [][Next]_vars

\* The ban-state queries are answered: a ban that exists is found.
NextAnswered == NextOps(FALSE)

SpecAnswered == Init /\ [][NextAnswered]_vars

(***************************************************************************)
(* The reason fetch of the guard may be rejected as well: a moderator bans *)
(* the user in guild A, the bot is in every guild and may ban in every     *)
(* guild, and no ban exists at the start.                                  *)
(***************************************************************************)
NextUnread ==
  \/ \E h \in Handlers : HandlerStep(h, TRUE)
  \/ \E h \in Handlers : FetchBanReasonFail(h)
  \/ \E u \in Subjects : NaturalBan("A", u, <<"spam">>, TRUE)
  \/ \E d \in TickDeltas : Tick(d)
  \/ Cleanup

(***************************************************************************)
(* Concurrent operations: moderators ban the same user in guilds A and C   *)
(* at any time, also while a listener is running.  The bot is in every     *)
(* guild and may ban in every guild, and no ban exists at the start.       *)
(***************************************************************************)
InitRace ==
  /\ Init
  /\ joined = NodeIds
  /\ hasPerm = NodeIds
  /\ \A g \in NodeIds, u \in Subjects : ~bans[g][u].banned

NextRace ==
  \/ \E h \in Handlers : HandlerStep(h, TRUE)
  \/ \E g \in {"A", "C"}, u \in Subjects : NaturalBan(g, u, <<"spam">>, FALSE)
  \/ \E d \in TickDeltas : Tick(d)
  \/ Cleanup

SpecRace == InitRace /\ [][NextRace]_vars

SpecUnread == InitRace /\ [][NextUnread]_vars

(***************************************************************************)
(* Progress.  The bot has propagated a moderator's ban of the user from    *)
(* guild A to B and C and has dropped the echoes (Synced, a state Spec     *)
(* reaches), or it has just started.  Every guild is joined and grants the *)
(* ban permission, and every REST call is answered and accepted.  The      *)
(* event loop runs every listener and command whose awaited call has       *)
(* settled, which is the weak fairness stated.                             *)
(***************************************************************************)
Synced ==
  /\ now = StartTime + 2 * BAN_DELAY_MS
  /\ joined = NodeIds
  /\ hasPerm = NodeIds
  /\ bans = [g \in NodeIds |-> [u \in Subjects |->
               IF g = "A" THEN Banned(<<"spam">>)
               ELSE Banned(eventSyncReason("A", <<"spam">>))]]
  /\ events = {}
  /\ processingBans = [k \in Keys |->
       IF k[2] = "B" THEN StartTime
       ELSE IF k[2] = "C" THEN StartTime + BAN_DELAY_MS ELSE 0]

InitLive ==
  \/ InitRace
  \/ /\ Synced
     /\ ticks = 0
     /\ hnd = [h \in Handlers |-> IdleHandler]
     /\ sync = IdleSync
     /\ unban = IdleUnban
     /\ writes = [k \in Keys |-> 0]
     /\ ops = 0
     /\ lastOp = [kind |-> "none", origin |-> "none"]
     /\ acq = NoAcq

LiveHandlerStep(h) ==
  \/ \E e \in events : GuildBanAdd(h, e)
  \/ FetchBanReason(h)
  \/ BanFetchBotMember(h)
  \/ \E found \in BOOLEAN : BanFetchExisting(h, found, FALSE)
  \/ BanApplied(h)
  \/ BanResolved(h)
  \/ BanDelayDone(h)

LiveUnbanStep ==
  \/ UnbanFetchBotMember
  \/ \E found \in BOOLEAN : UnbanFetchExisting(found, FALSE)
  \/ UnbanApplied
  \/ UnbanResolved

NextLive ==
  \/ \E h \in Handlers : LiveHandlerStep(h)
  \/ LiveUnbanStep
  \/ \E g \in NodeIds, u \in Subjects : NaturalBan(g, u, <<"spam">>, TRUE)
  \/ \E u \in Subjects : UnbanCommand(TRUE, u, TRUE)
  \/ \E d \in TickDeltas : Tick(d)
  \/ Cleanup

SpecLive ==
  /\ InitLive
  /\ [][NextLive]_vars
  /\ \A h \in Handlers : WF_vars(LiveHandlerStep(h))
  /\ WF_vars(LiveUnbanStep)

(***************************************************************************)
(* A guild that does not answer.  No call of the program carries a timeout *)
(* (no AbortSignal, no Promise.race): an awaited REST call to a guild that *)
(* never answers never settles.  Calls to the other guilds settle, and the *)
(* event loop resumes their handlers.                                      *)
(***************************************************************************)
SilentNode == "B"

\* The guild whose answer the invocation, /sync or /unban is waiting for.
HandlerAwaits(h) ==
  IF hnd[h].pc \in {"perm", "banq", "write"} THEN servers[hnd[h].idx]
  ELSE IF hnd[h].pc = "fetchReason" THEN hnd[h].src ELSE "none"
SyncAwaits ==
  IF sync.pc \in {"list", "perm", "banq", "write"} THEN servers[sync.idx]
  ELSE "none"
UnbanAwaits ==
  IF unban.pc \in {"perm", "banq", "write"} THEN servers[unban.idx]
  ELSE "none"

LiveSyncStep ==
  \/ SyncListed
  \/ SyncFetchBotMember
  \/ \E found \in BOOLEAN : SyncFetchExisting(found, FALSE)
  \/ SyncApplied
  \/ SyncResolved
  \/ SyncDelayDone
  \/ SyncUserDelayDone

NextSilent ==
  \/ \E h \in Handlers : LiveHandlerStep(h)
  \/ LiveSyncStep
  \/ LiveUnbanStep
  \/ \E g \in NodeIds, u \in Subjects : NaturalBan(g, u, <<"spam">>, TRUE)
  \/ SyncCommand(TRUE, TRUE)
  \/ \E u \in Subjects : UnbanCommand(TRUE, u, TRUE)
  \/ \E d \in TickDeltas : Tick(d)
  \/ Cleanup

\* Every guild is joined and grants the ban permission.
InitSilent == Init /\ joined = NodeIds /\ hasPerm = NodeIds

SpecSilent ==
  /\ InitSilent
  /\ [][NextSilent]_vars
  /\ \A h \in Handlers :
       WF_vars(HandlerAwaits(h) # SilentNode /\ LiveHandlerStep(h))
  /\ WF_vars(SyncAwaits # SilentNode /\ LiveSyncStep)
  /\ WF_vars(UnbanAwaits # SilentNode /\ LiveUnbanStep)

(***************************************************************************)
(* Commands that overlap: an operator runs /unban while a /sync run is in  *)
(* progress, or the other way round; neither handler waits for the other.  *)
(* No moderator bans anybody, every guild is joined and grants the ban     *)
(* permission, and every REST call is answered; the events of the bot's    *)
(* writes are dispatched to the listener's guard.                          *)
(***************************************************************************)
GuardStep(h) ==
  \/ \E e \in events : GuildBanAdd(h, e)
  \/ FetchBanReason(h)

NextOverlap ==
  \/ \E h \in Handlers : GuardStep(h)
  \/ LiveSyncStep
  \/ LiveUnbanStep
  \/ SyncCommand(TRUE, FALSE)
  \/ \E u \in Subjects : UnbanCommand(TRUE, u, FALSE)
  \/ \E d \in TickDeltas : Tick(d)
  \/ Cleanup

SpecOverlap == InitSilent /\ [][NextOverlap]_vars

(***************************************************************************)
(* A guild outside the registry.  The bot may be a member of guilds that   *)
(* servers.json does not list; the gateway delivers their guildBanAdd      *)
(* events to the same listener.                                            *)
(***************************************************************************)
OtherGuild == "X"

\* A moderator of the unlisted guild bans u there.
OtherGuildBan(u) ==
  /\ events' = events \cup {[user |-> u, guild |-> OtherGuild, echo |-> FALSE]}
  /\ events' # events
  /\ UNCHANGED <<now, ticks, joined, hasPerm, bans, processingBans, hnd, sync,
                 unban, writes, ops, lastOp, acq>>

NextOther ==
  \/ NextLive
  \/ \E u \in Subjects : OtherGuildBan(u)

SpecOther == InitLive /\ [][NextOther]_vars

(***************************************************************************)
(* Properties                                                              *)
(***************************************************************************)
\* The listener invocation h has passed its guard and runs the fan-out.
FannedOut(h) == hnd[h].pc \in {"perm", "banq", "write", "delay", "done"}

\* The key of the node the invocation h is working on.
KeyOf(h) == getBanKey(hnd[h].user, servers[hnd[h].idx])

\* A token for k is in the map and not older than the time to live.
LiveToken(k) ==
  processingBans[k] # 0 /\ now - processingBans[k] <= BAN_PROCESSING_TIMEOUT

\* A token for k is in the map and older than the time to live.
ExpiredToken(k) ==
  processingBans[k] # 0 /\ now - processingBans[k] > BAN_PROCESSING_TIMEOUT

\* The outcome the invocation h records in this step, "none" if it records
\* nothing.
NewOutcome(h) ==
  IF Len(hnd'[h].results) > Len(hnd[h].results)
  THEN hnd'[h].results[Len(hnd[h].results) + 1].outcome
  ELSE "none"

\* The invocation h leaves its ban-state query in this step.
Attempts(h) == hnd[h].pc = "banq" /\ hnd'[h] # hnd[h]

\* The ban writes in flight for key k.
HandlerWrites(k) ==
  {h \in Handlers : hnd[h].pc = "write" /\ KeyOf(h) = k}
SyncWrites(k) ==
  IF /\ sync.pc = "write"
     /\ getBanKey(sync.allBans[sync.cur].userId, servers[sync.idx]) = k
  THEN 1 ELSE 0
InFlight(k) == Cardinality(HandlerWrites(k)) + SyncWrites(k)

\* The results rs name the configured guilds in registry order.
InRegistryOrder(rs) ==
  /\ Len(rs) <= Len(servers)
  /\ \A i \in DOMAIN rs : rs[i].serverId = servers[i]

OutcomeCount(rs, o) == Cardinality({i \in DOMAIN rs : rs[i].outcome = o})

ExactlyOne(a, b, c) ==
  \/ a /\ ~b /\ ~c
  \/ ~a /\ b /\ ~c
  \/ ~a /\ ~b /\ c

\* C1 (loop freedom): when the reason fetch of the guard is answered, the
\* event that one of the bot's own ban writes raises never passes the guard
\* of the listener, whenever it is delivered (token live, expired or swept);
\* so a moderator's ban starts at most one fan-out and a command starts
\* none.
C1_LoopFreedom ==
  /\ \A h \in Handlers : hnd[h].echo => ~FannedOut(h)
  /\ Cardinality({h \in Handlers : FannedOut(h)})
       <= (IF lastOp.kind = "ban" THEN 1 ELSE 0)

\* C2 (at most one in-flight ban write per subject and node): at every
\* moment at most one ban write is in flight for a key.
C2_OneInFlight == \A k \in Keys : InFlight(k) <= 1

C4_LockExpiry ==
  [][\A h \in Handlers :
       (Attempts(h) /\ ExpiredToken(KeyOf(h))
          /\ NewOutcome(h) # "AlreadyPresent") =>
         /\ hnd'[h].pc = "write"
         /\ processingBans'[KeyOf(h)] = now
         /\ writes'[KeyOf(h)] = writes[KeyOf(h)] + 1]_vars

\* A key was acquired over a timed-out entry that was still in the map.
C4_Witness ==
  /\ acq # NoAcq
  /\ acq.prev # 0
  /\ acq.at - acq.prev > BAN_PROCESSING_TIMEOUT
  /\ processingBans[acq.key] = acq.at

\* C5 (origin exclusion): every propagation run records SkippedOrigin for
\* the origin of the ban and issues no ban write to it.
C5_OriginExcluded ==
  /\ \A h \in Handlers :
       /\ \A i \in DOMAIN hnd[h].results :
            hnd[h].results[i].serverId = hnd[h].src =>
              hnd[h].results[i].outcome = "SkippedOrigin"
       /\ hnd[h].pc = "write" => servers[hnd[h].idx] # hnd[h].src
  /\ \A j \in DOMAIN sync.details : \A i \in DOMAIN sync.details[j] :
       sync.details[j][i].serverId = sync.allBans[j].sourceServerId =>
         sync.details[j][i].outcome = "SkippedOrigin"
  /\ sync.pc = "write" =>
       servers[sync.idx] # sync.allBans[sync.cur].sourceServerId

\* C6 (idempotence): a /sync run that directly follows another, with no
\* other change in between, issues no ban write to a node other than the
\* origin on which the first run recorded Applied, and does not record
\* Applied for it again.
C6_Idempotence ==
  /\ \A j \in DOMAIN sync.details : \A i \in DOMAIN sync.details[j] :
       (/\ j \in DOMAIN sync.prev
        /\ servers[i] # sync.allBans[j].sourceServerId
        /\ sync.prev[j][i].outcome = "Applied") =>
         sync.details[j][i].outcome # "Applied"
  /\ (/\ sync.pc = "write"
      /\ sync.cur \in DOMAIN sync.prev
      /\ servers[sync.idx] # sync.allBans[sync.cur].sourceServerId) =>
       sync.prev[sync.cur][sync.idx].outcome # "Applied"

\* The listener invocations that recorded Applied for guild id.
AppliedBy(id) ==
  {h \in Handlers : \E i \in DOMAIN hnd[h].results :
     /\ hnd[h].results[i].serverId = id
     /\ hnd[h].results[i].outcome = "Applied"}

\* C7 (exactly-effectively-once): for one moderator's ban, over the whole
\* execution with the echoes its writes cause, each configured node other
\* than the origin receives at most one ban write that succeeds.
C7_EffectivelyOnce ==
  lastOp.kind = "ban" =>
    \A id \in NodeIds \ {lastOp.origin} : Cardinality(AppliedBy(id)) <= 1

C9_AppliedCount ==
  \A h \in Handlers : hnd[h].pc = "done" =>
    successCount(hnd[h].results) = OutcomeCount(hnd[h].results, "Applied")

\* C10 (per-node isolation): every run records exactly one outcome per
\* configured node, in registry order, whatever failed on the nodes before:
\* the listener's fan-out, each propagation of /sync, and /unban.
C10_OneOutcomePerNode ==
  /\ \A h \in Handlers :
       /\ InRegistryOrder(hnd[h].results)
       /\ hnd[h].pc = "done" => Len(hnd[h].results) = Len(servers)
  /\ InRegistryOrder(sync.results)
  /\ \A j \in DOMAIN sync.details :
       /\ InRegistryOrder(sync.details[j])
       /\ Len(sync.details[j]) = Len(servers)
  /\ InRegistryOrder(unban.results)
  /\ unban.pc = "done" => Len(unban.results) = Len(servers)

\* The write to B failed and the write to C, after it, was applied.
C10_Witness ==
  \E h \in Handlers :
    /\ hnd[h].pc = "done"
    /\ hnd[h].results[2].outcome = "Failed"
    /\ hnd[h].results[3].outcome = "Applied"

\* The places in the registry of the guilds whose fetched list holds a ban
\* of u that the bot did not write.
UntaggedHolders(u) ==
  {i \in DOMAIN servers :
     /\ servers[i] \in sync.listed
     /\ bans[servers[i]][u].banned
     /\ ~(Len(bans[servers[i]][u].reason) > 0
            /\ bans[servers[i]][u].reason[1] = SyncTag)}

First(S) == CHOOSE i \in S : \A j \in S : i <= j

\* The collection of /sync is over and the fetched guilds are still known.
Collected ==
  sync.pc \notin {"idle", "denied", "list"} /\ sync.listed # Forgotten

PrevAllSucceeded ==
  /\ sync.prev # <<>>
  /\ \A j \in DOMAIN sync.prev : \A i \in DOMAIN sync.prev[j] :
       sync.prev[j][i].outcome # "Failed"

\* C12 (fixpoint of the reconciliation): a /sync run that directly follows
\* a run in which every write succeeded, with no other change in between,
\* issues no ban write at all.
C12_Fixpoint == PrevAllSucceeded => sync.pc # "write"


\* guild.bans.fetch() of the collection rejects in this step.
ListFailed ==
  sync.pc = "list" /\ sync' # sync /\ servers[sync.idx] \notin sync'.listed

\* The joined guilds after position i of the registry.
LaterJoined(i) == {j \in DOMAIN servers : j > i /\ servers[j] \in joined}

\* C13 (a failed listing is tolerated): a guild whose listing failed is the
\* origin of no record of the union; the step in which a listing fails
\* leaves the union as it is and goes on with the next joined guild, or,
\* after the last one, with the propagation of the records collected from
\* the other guilds; and a run that has ended has propagated and reported
\* every record of its union.
C13_ListFailureTolerated ==
  /\ [](sync.listed # Forgotten =>
          \A i \in DOMAIN sync.allBans :
            sync.allBans[i].sourceServerId \in sync.listed)
  /\ [][ListFailed =>
          /\ sync'.allBans = sync.allBans
          /\ IF LaterJoined(sync.idx) # {}
             THEN sync'.pc = "list" /\ sync'.idx = First(LaterJoined(sync.idx))
             ELSE IF sync.allBans = <<>> THEN sync'.pc = "done"
             ELSE sync'.pc = "perm" /\ sync'.cur = 1]_vars
  /\ [](sync.pc = "done" =>
          /\ Len(sync.details) = Len(sync.allBans)
          /\ sync.stats.totalBans = Len(sync.allBans))

\* The listing of guild A failed (A holds a moderator's ban, the record
\* kept is that of guild C) and the run has ended with its report.
C13_Witness ==
  /\ sync.pc = "done"
  /\ "A" \in joined
  /\ \E u \in Subjects :
       /\ bans["A"][u].banned
       /\ bans["A"][u].reason = <<"spam">>
       /\ mapHas(sync.allBans, u)
       /\ mapGet(sync.allBans, u).sourceServerId = "C"
  /\ Len(sync.details) = 1


\* The outcome /unban records in this step, "none" if it records nothing.
NewUnbanOutcome ==
  IF Len(unban'.results) > Len(unban.results)
  THEN unban'.results[Len(unban.results) + 1].outcome
  ELSE "none"

\* C14 (classification of /unban): a guild the bot is not in is recorded
\* NodeUnreachable and a joined guild without the ban permission
\* PermissionDenied (or Failed, when the member fetch was rejected); when
\* the run leaves its ban-state query, a guild that does not hold the ban
\* is recorded wasNotBanned, a success, and nothing is removed, and for a
\* guild that holds the ban the removal write is issued; the write is
\* recorded Applied only when it was applied, and Failed otherwise.
C14_RetractClassification ==
  /\ [](\A i \in DOMAIN unban.results :
          LET r == unban.results[i]
              id == servers[i] IN
          /\ r.outcome = "NodeUnreachable" <=> id \notin joined
          /\ r.outcome = "PermissionDenied" => id \in joined \ hasPerm
          /\ id \in joined \ hasPerm =>
               r.outcome \in {"PermissionDenied", "Failed"}
          /\ r.outcome = "wasNotBanned" => r.success /\ r.wasNotBanned
          /\ r.outcome = "Applied" => r.success /\ ~r.wasNotBanned
          /\ r.outcome = "Failed" => ~r.success)
  /\ [][(unban.pc = "banq" /\ unban' # unban) =>
          IF bans[servers[unban.idx]][unban.user].banned
          THEN unban'.pc = "write" /\ unban'.idx = unban.idx
          ELSE NewUnbanOutcome = "wasNotBanned" /\ bans' = bans]_vars
  /\ [][(unban.pc = "write" /\ NewUnbanOutcome # "none") =>
          /\ NewUnbanOutcome \in {"Applied", "Failed"}
          /\ NewUnbanOutcome = "Applied" =>
               ~bans'[servers[unban.idx]][unban.user].banned]_vars


\* The reason recorded for the ban of the event the invocation h handles
\* carries the tag.
RecordedTagged(h) ==
  LET r == bans[hnd[h].src][hnd[h].user].reason IN
  Len(r) > 0 /\ r[1] = SyncTag

\* C15 (guard of the listener): an event that arrives while a live token
\* is held for its user and guild is rejected; an event whose recorded
\* reason carries the tag is rejected when its reason fetch settles, token
\* or none; and the step that rejects an event adds no result, no ban, no
\* ban write and no token.
C15_IngestionGuard ==
  [][\A h \in Handlers :
       /\ (hnd[h].pc = "idle" /\ hnd'[h].pc # "idle") =>
            (LiveToken(getBanKey(hnd'[h].user, hnd'[h].src)) =>
               hnd'[h].pc \in {"rejected", "ignored"})
       /\ (hnd[h].pc = "fetchReason" /\ hnd'[h].pc # "fetchReason") =>
            (RecordedTagged(h) => hnd'[h].pc = "rejected")
       /\ (hnd[h].pc # "rejected" /\ hnd'[h].pc = "rejected") =>
            /\ hnd'[h].results = <<>>
            /\ bans' = bans
            /\ writes' = writes
            /\ \A k \in Keys : processingBans'[k] \in {0, processingBans[k]}]_vars


\* C16 (eventual convergence): once a moderator has banned a user in a
\* configured guild and no further ban or command follows, the user is
\* eventually banned in every configured guild.
C16_Convergence ==
  \A u \in Subjects :
    (/\ ops = MaxOps
     /\ lastOp.kind = "ban"
     /\ bans[lastOp.origin][u].banned
     /\ bans[lastOp.origin][u].reason = <<"spam">>)
      ~> (\A g \in NodeIds : bans[g][u].banned)


\* C17 (release after the write): when a ban write of the listener or of
\* /sync has finished, resolved or rejected, no token is held for its user
\* and guild.
C17_ReleasedAfterWrite ==
  [][/\ \A h \in Handlers :
          (hnd[h].pc = "write" /\ hnd'[h].pc # "write") =>
            processingBans'[KeyOf(h)] = 0
     /\ (sync.pc = "write" /\ sync'.pc # "write") =>
          processingBans'[getBanKey(sync.allBans[sync.cur].userId,
                                    servers[sync.idx])] = 0]_vars


\* The outcome /sync records in this step, "none" if it records nothing.
NewSyncOutcome ==
  IF /\ sync.pc = "banq"
     /\ Len(sync'.results) > Len(sync.results) \/ sync'.pc = "userDelay"
  THEN (IF sync'.pc = "userDelay" THEN sync'.details[Len(sync'.details)]
        ELSE sync'.results)[sync.idx].outcome
  ELSE "none"

\* C18 (already-present short-circuit): an attempt that leaves its
\* ban-state query on a guild other than the origin that holds a ban of the
\* user records AlreadyPresent, issues no ban write and leaves
\* processingBans as it is.
C18_AlreadyPresent ==
  [][/\ \A h \in Handlers :
          (Attempts(h) /\ bans[servers[hnd[h].idx]][hnd[h].user].banned) =>
            /\ NewOutcome(h) = "AlreadyPresent"
            /\ hnd'[h].pc # "write"
            /\ writes' = writes
            /\ processingBans' = processingBans
     /\ (/\ sync.pc = "banq"
         /\ sync' # sync
         /\ servers[sync.idx] # sync.allBans[sync.cur].sourceServerId
         /\ bans[servers[sync.idx]][sync.allBans[sync.cur].userId].banned) =>
          /\ NewSyncOutcome = "AlreadyPresent"
          /\ sync'.pc # "write"
          /\ writes' = writes
          /\ processingBans' = processingBans]_vars


\* The record the invocation h pushes in this step.
NewRecord(h) == hnd'[h].results[Len(hnd[h].results) + 1]

\* The record /sync pushes in this step for the guild it is working on.
NewSyncRecord ==
  (IF sync'.pc = "userDelay" THEN sync'.details[Len(sync'.details)]
   ELSE sync'.results)[sync.idx]

\* C19 (skipped under a live token): an attempt of the listener or of
\* /sync that comes to the acquire step (its query found no ban) while a
\* token for its key is in the map and not older than 30 s issues no ban
\* write, leaves processingBans as it is and records SkippedAsLoop, a
\* record that none of the error counters counts.
C19_SkippedAsLoop ==
  [][/\ \A h \in Handlers :
          (/\ Attempts(h)
           /\ LiveToken(KeyOf(h))
           /\ NewOutcome(h) # "AlreadyPresent") =>
            /\ NewOutcome(h) = "SkippedAsLoop"
            /\ hnd'[h].pc # "write"
            /\ writes' = writes
            /\ processingBans' = processingBans
            /\ ~isFailure(NewRecord(h))
     /\ (/\ sync.pc = "banq"
         /\ sync' # sync
         /\ LiveToken(getBanKey(sync.allBans[sync.cur].userId,
                                servers[sync.idx]))
         /\ NewSyncOutcome # "AlreadyPresent") =>
          /\ NewSyncOutcome = "SkippedAsLoop"
          /\ sync'.pc # "write"
          /\ writes' = writes
          /\ processingBans' = processingBans
          /\ ~isErrorStat(NewSyncRecord)]_vars

\* A finished fan-out of the listener that skipped a guild under a live
\* token and reports no error.
C19_Witness ==
  \E h \in Handlers :
    /\ hnd[h].pc = "done"
    /\ \E i \in DOMAIN hnd[h].results :
         /\ hnd[h].results[i].outcome = "SkippedAsLoop"
         /\ LiveToken(getBanKey(hnd[h].user, servers[i]))
    /\ failureCount(hnd[h].results) = 0


Sweeps ==
  /\ processingBans' # processingBans
  /\ hnd' = hnd /\ sync' = sync /\ unban' = unban

\* The times at which a later check is compared: now and later.
LaterTimes ==
  {now, now + 1, now + BAN_DELAY_MS, now + BAN_PROCESSING_TIMEOUT,
   now + BAN_PROCESSING_TIMEOUT + 1}

\* C22 (the sweep): a run of the sweep deletes every entry older than 30 s,
\* leaves every other entry as it is, and changes the answer of no later
\* isBanProcessing check nor the map such a check or an acquisition leaves.
C22_SweepFrame ==
  [][Sweeps =>
       /\ \A k \in Keys :
            processingBans'[k] =
              IF processingBans[k] # 0
                 /\ now - processingBans[k] > BAN_PROCESSING_TIMEOUT
              THEN 0 ELSE processingBans[k]
       /\ \A u \in Subjects, g \in NodeIds, t \in LaterTimes :
            /\ isBanProcessing(processingBans', u, g, t)
                 = isBanProcessing(processingBans, u, g, t)
            /\ isBanProcessingMap(processingBans', u, g, t)[getBanKey(u, g)]
                 = isBanProcessingMap(processingBans, u, g, t)[getBanKey(u, g)]]_vars

\* The sweep has deleted the timed-out entry of guild B and kept the entry
\* of guild C, which is exactly 30 s old: the fan-out from A wrote to both,
\* both echoes were dropped under their tokens, and nothing else touched
\* the map.
C22_Witness ==
  \E u \in Subjects, h \in Handlers :
    /\ processingBans[getBanKey(u, "B")] = 0
    /\ processingBans[getBanKey(u, "C")] # 0
    /\ now - processingBans[getBanKey(u, "C")] = BAN_PROCESSING_TIMEOUT
    /\ hnd[h].pc = "done"
    /\ hnd[h].src = "A"
    /\ hnd[h].results[2].outcome = "Applied"
    /\ hnd[h].results[3].outcome = "Applied"
    /\ events = {}
    /\ \A g \in Handlers \ {h} :
         /\ hnd[g].pc \in {"idle", "rejected"}
         /\ hnd[g].banReason = <<>>


\* The latest operation is a command that must be rejected: the caller
\* lacks the ban permission, or the user id of /unban is malformed.
RejectedCommand(op, user) ==
  \/ op.kind = "sync" /\ ~op.auth
  \/ op.kind = "unban" /\ (~op.auth \/ user \in InvalidIds)

\* C23 (a rejected command has no effect): the step in which such a
\* command arrives ends it with the rejection and changes no ban, no
\* pending event and no entry of processingBans, and the command takes no
\* further step: no query, no write.
C23_RejectedCommand ==
  [][/\ (ops' # ops /\ RejectedCommand(lastOp', unban'.user)) =>
          /\ lastOp'.kind = "sync" => sync'.pc = "denied"
          /\ lastOp'.kind = "unban" => unban'.pc \in {"denied", "invalid"}
          /\ bans' = bans
          /\ events' = events
          /\ processingBans' = processingBans
     /\ (ops' = ops /\ RejectedCommand(lastOp, unban.user)) =>
          /\ sync' = sync
          /\ unban' = unban
          /\ bans' = bans
          /\ events' = events]_vars

\* A /unban with a malformed id was rejected while a ban and a token of an
\* earlier propagation exist.
C23_Witness ==
  /\ lastOp.kind = "unban"
  /\ lastOp.auth
  /\ unban.pc = "invalid"
  /\ unban.user \in InvalidIds
  /\ \E k \in Keys : processingBans[k] # 0
  /\ \E g \in NodeIds, u \in Subjects : bans[g][u].banned


\* C24 (a failure before the mark): a step in which an attempt of the
\* listener or of /sync leaves its permission lookup, with or without a
\* failure, deletes no token of a key for which a ban write is in flight.
C24_CatchKeepsForeignToken ==
  [][((\E h \in Handlers : hnd[h].pc = "perm" /\ hnd'[h] # hnd[h])
        \/ (sync.pc = "perm" /\ sync' # sync)) =>
       \A k \in Keys :
         InFlight(k) > 0 => processingBans'[k] = processingBans[k]]_vars


\* C25 (only echoes are discarded): an event that the guard of the
\* listener has discarded is the echo of one of the bot's own ban writes,
\* never the event of a moderator's ban.
C25_OnlyEchoesDiscarded ==
  \A h \in Handlers : hnd[h].pc = "rejected" => hnd[h].echo


\* /unban has finished and every guild reported the user unbanned or not
\* banned.
Retracted ==
  /\ unban.pc = "done"
  /\ \A i \in DOMAIN unban.results :
       unban.results[i].outcome \in {"Applied", "wasNotBanned"}

\* C26 (no ban after the retraction): once /unban has finished with every
\* guild reporting success, and no moderator bans the user again, a /sync
\* run issues no new ban write for that user.
C26_NoBanAfterRetraction ==
  [][(/\ Retracted
      /\ sync'.pc = "write"
      /\ sync'.allBans[sync'.cur].userId = unban.user) =>
       (sync.pc = "write" /\ sync.idx = sync'.idx /\ sync.cur = sync'.cur)]_vars


\* C27 (unlisted guild): an invocation of the listener for an event of a
\* guild outside the registry ends at once: the step that starts it changes
\* neither processingBans nor any ban list, issues no write, leaves /sync,
\* /unban and the other invocations alone and collects no result; afterwards
\* the invocation takes no further step, so it queries nothing and reports
\* nothing.
C27_UnlistedIgnored ==
  [][\A h \in Handlers :
       /\ (hnd[h].pc = "idle" /\ hnd'[h].pc # "idle" /\ hnd'[h].src \notin NodeIds) =>
            /\ hnd'[h].pc = "ignored"
            /\ hnd'[h].results = <<>>
            /\ processingBans' = processingBans
            /\ bans' = bans
            /\ writes' = writes
            /\ sync' = sync
            /\ unban' = unban
            /\ \A k \in Handlers \ {h} : hnd'[k] = hnd[k]
       /\ hnd[h].pc = "ignored" => hnd'[h] \in {hnd[h], IdleHandler}]_vars

\* An event of the unlisted guild was delivered while a token was set and
\* another invocation was under way.
C27_Witness ==
  \E h, k \in Handlers :
    /\ hnd[h].pc = "ignored"
    /\ hnd[h].src = OtherGuild
    /\ HandlerActive(k)
    /\ \E key \in Keys : processingBans[key] # 0


\* C28 (wasNotBanned is true): /unban records wasNotBanned for a guild only
\* in a step at which the user is not banned in that guild, and when the run
\* has finished no guild counted as a success still holds the ban.
C28_NotBannedMeansNotBanned ==
  /\ [][NewUnbanOutcome = "wasNotBanned" =>
          ~bans[servers[unban.idx]][unban.user].banned]_vars
  /\ [](unban.pc = "done" =>
          \A i \in DOMAIN unban.results :
            unban.results[i].success =>
              ~bans[servers[i]][unban.user].banned)


=============================================================================
